---------------------------- MODULE Spec2Model ----------------------------
(***************************************************************************)
(* A model of tello.py: the command/response session of main() over the    *)
(* UDP control channel, the optional NetworkManager association that       *)
(* precedes it, and the ffmpeg capture process main() starts and stops.    *)
(*                                                                         *)
(* The program is one thread; `pc` is its position in main().  The device, *)
(* the control channel and the capture processes are the environment.      *)
(* Time passes only inside time.sleep(): `clock` counts the time units     *)
(* slept, one unit per step.                                               *)
(***************************************************************************)
EXTENDS Integers, Sequences, FiniteSets, TLC

(***************************************************************************)
(* Bounds of the model.                                                    *)
(***************************************************************************)
\* longest command queue drawn besides the program's own commandSequence
MaxLen == 3
\* output<N>.h264 files that may exist before the run: N in 1..MaxFiles
MaxFiles == 1
\* connection profiles `nmcli -t con` may list
MaxProfiles == 2
\* where the output name alone is followed: N in 1..MaxProbe may exist
MaxProbe == 3
\* and the program is run again up to MaxRuns times
MaxRuns == 3
\* datagrams that may arrive at port 9000 beyond the number of datagrams sent
MaxDup == 1

(***************************************************************************)
(* Program constants.                                                      *)
(***************************************************************************)
\* time.sleep(5) after 'streamon'
SettleDelay == 5
\* time.sleep(2) before the capture is closed
GraceDelay == 2
\* the interpreter's exit status for sys.exit(-1)
ExitFatal == 255
\* the interpreter's exit status after an uncaught exception
ExitTraceback == 1
\* the exit status when main() returns
ExitSuccess == 0
\* the program has not exited
NoExit == -1
\* Python's None for TELLO_WIFI_UUID and vidProc (handles and uuids are >= 1)
None == 0

\* the module-level command list
commandSequence ==
    << "command", "streamon", "battery?", "speed?", "takeoff",
       "flip f", "cw 180", "forward 50", "cw 180", "land" >>

\* the tokens the bounded queues are drawn from
CommandTokens == {"command", "streamon", "land"}

SeqsUpTo(S, n) == UNION {[1..k -> S] : k \in 0..n}

\* the command queues a run is given
CommandQueues == SeqsUpTo(CommandTokens, MaxLen) \cup {commandSequence}

(***************************************************************************)
(* str.encode / bytes.decode with encoding='utf-8'.  A datagram payload is *)
(* a byte string: either the UTF-8 encoding of a text, or bytes that are   *)
(* no valid UTF-8, on which decode raises UnicodeDecodeError.              *)
(***************************************************************************)
InvalidUtf8 == << "bytes", "\\xff" >>

encode(s) == << "utf8", s >>

\* the text, or raised: UnicodeDecodeError
decode(b) ==
    IF b[1] = "utf8"
    THEN [raised |-> FALSE, text |-> b[2]]
    ELSE [raised |-> TRUE, text |-> ""]

\* what the device may put in a reply datagram
ReplyPayloads == {encode("ok"), encode("error"), InvalidUtf8}

(***************************************************************************)
(* `nmcli -t con`: one line NAME:UUID:TYPE:DEVICE per connection profile.  *)
(* A profile is modelled by whether its name contains 'TELLO' and whether  *)
(* its DEVICE field is non-empty; the profile on line i has uuid i.        *)
(***************************************************************************)
Profiles == [tello : BOOLEAN, dev : BOOLEAN]

NetLists == SeqsUpTo(Profiles, MaxProfiles)

\* the number of profiles whose name contains 'TELLO'
TelloCount(nets) == Cardinality({i \in 1..Len(nets) : nets[i].tello})

RECURSIVE ScanWifi(_, _, _)
\* the for loop of getWifiUUID from line i on, with `uuid` found so far
ScanWifi(nets, i, uuid) ==
    IF i > Len(nets)
    THEN IF uuid = None
         THEN [kind |-> "exit", uuid |-> None,
               diag |-> "No Tello WiFi network found"]
         ELSE [kind |-> "ok", uuid |-> uuid, diag |-> ""]
    ELSE IF nets[i].tello
         THEN IF uuid # None
              THEN [kind |-> "exit", uuid |-> None,
                    diag |-> "Multiple Tello WiFi networks found"]
              ELSE ScanWifi(nets, i + 1, i)
         ELSE ScanWifi(nets, i + 1, uuid)

\* getWifiUUID without the check for a second match: the last match wins
getWifiUUIDLastMatch(nets) ==
    IF nets = << >>
    THEN [kind |-> "raise", uuid |-> None, diag |-> "Traceback: ValueError"]
    ELSE LET hits == {i \in 1..Len(nets) : nets[i].tello} IN
         IF hits = {}
         THEN [kind |-> "exit", uuid |-> None,
               diag |-> "No Tello WiFi network found"]
         ELSE [kind |-> "ok", diag |-> "",
               uuid |-> CHOOSE i \in hits : \A j \in hits : j <= i]

\* getWifiUUID: with no profile at all the output is '' and the unpacking of
\* ''.split(':') raises ValueError
getWifiUUID(nets) ==
    IF nets = << >>
    THEN [kind |-> "raise", uuid |-> None, diag |-> "Traceback: ValueError"]
    ELSE ScanWifi(nets, 1, None)

isConnected(uuid, nets) ==
    \E i \in 1..Len(nets) : uuid = i /\ nets[i].dev

(***************************************************************************)
(* The output name: the lowest N >= 1 for which output<N>.h264 is no file. *)
(***************************************************************************)
RECURSIVE ProbeNameSkip(_, _)
\* ProbeName with the counter raised by two
ProbeNameSkip(existing, n) ==
    IF n \in existing THEN ProbeNameSkip(existing, n + 2) ELSE n

RECURSIVE ProbeName(_, _)
\* the while loop over os.path.exists
ProbeName(existing, n) ==
    IF n \in existing THEN ProbeName(existing, n + 1) ELSE n

\* reserveName as one more than the number of files that exist
reserveNameByCount(existing) == Cardinality(existing) + 1

reserveName(existing) == ProbeName(existing, 1)

VARIABLES
    \* inputs of the run
    simulate,         \* args.simulate
    disableNm,        \* args.no_nm
    commands,         \* the command sequence the run is given
    earlier,          \* per earlier run: the name it reserved, the files then
    \* the program
    pc,               \* position in main()
    useNmcli,
    uuid,             \* TELLO_WIFI_UUID
    sockBound,        \* the control socket exists and is bound to port 9000
    running,
    pendingCommands,
    vidProc,          \* the handle of the last capture process, or None
    vidFnameCount,    \* N of vidFname = output<N>.h264
    cmd,
    resp,
    slept,            \* time units of the current time.sleep() that have passed
    exitStatus,
    diag,             \* the last diagnostic the program wrote
    out,              \* the last CMD, RESP or closing line printed
    \* the environment
    clock,            \* time units slept so far
    files,            \* the N for which output<N>.h264 exists
    toDevice,         \* command datagrams the device has not yet handled
    toHost,           \* reply datagrams waiting at port 9000
    procs,            \* the capture processes spawned, by handle
    \* the history of the run
    sent,             \* the datagrams sent to 192.168.10.1:8889, in order
    answered,         \* per reply received: the command it answers, and when
    starts,           \* calls of subprocess.Popen(['ffmpeg', ...])
    created,          \* the output files created during the run
    nmcliRun,         \* nmcli has been invoked
    matches,          \* profiles containing 'TELLO' that nmcli listed, or -1
    upFailed,         \* `nmcli con up` has returned a failure
    failure           \* the first failure of the run, and what was sent by then

vars == << simulate, disableNm, commands, earlier, pc, useNmcli, uuid, sockBound,
           running, pendingCommands, vidProc, vidFnameCount, cmd, resp,
           slept, exitStatus, diag, out, clock, files, toDevice, toHost,
           procs, sent, answered, starts, created, nmcliRun, matches,
           upFailed, failure >>

inputVars == << simulate, disableNm, commands, earlier >>

assocVars == << useNmcli, uuid, nmcliRun, matches, upFailed >>

netVars == << toDevice, toHost, sent, answered >>

captureVars == << vidProc, procs, starts, files, created >>

NoFailure == [kind |-> "none", sent |-> 0]

\* the program before main() is called, whatever the inputs and the files
InitProgram ==
    /\ earlier = << >>
    /\ pc = "start"
    /\ useNmcli = FALSE
    /\ uuid = None
    /\ sockBound = FALSE
    /\ running = FALSE
    /\ pendingCommands = << >>
    /\ vidProc = None
    /\ vidFnameCount = 0
    /\ cmd = ""
    /\ resp = ""
    /\ slept = 0
    /\ exitStatus = NoExit
    /\ diag = ""
    /\ out = << "", "" >>
    /\ clock = 0
    /\ toDevice = {}
    /\ toHost = << >>
    /\ procs = << >>
    /\ sent = << >>
    /\ answered = << >>
    /\ starts = 0
    /\ created = {}
    /\ nmcliRun = FALSE
    /\ matches = -1
    /\ upFailed = FALSE
    /\ failure = NoFailure

Init ==
    /\ simulate \in BOOLEAN
    /\ disableNm \in BOOLEAN
    /\ commands \in CommandQueues
    /\ files \in SUBSET (1..MaxFiles)
    /\ InitProgram

\* the program ends: sys.exit(status) or an uncaught exception
Abort(status, message, kind) ==
    /\ pc' = "aborted"
    /\ exitStatus' = status
    /\ diag' = message
    /\ failure' = IF failure.kind = "none"
                  THEN [kind |-> kind, sent |-> Len(sent)]
                  ELSE failure


(***************************************************************************)
(* main(), lines 70-79: whether NetworkManager is used.                    *)
(***************************************************************************)
\* disableNm or simulate: nmcli is not looked for
StartNoNm ==
    /\ pc = "start"
    /\ disableNm \/ simulate
    /\ useNmcli' = FALSE
    /\ pc' = "socket"
    /\ UNCHANGED << inputVars, uuid, nmcliRun, matches, upFailed, sockBound,
                    running, pendingCommands, vidFnameCount, cmd, resp, slept,
                    exitStatus, diag, out, clock, netVars, captureVars,
                    failure >>

\* haveNmcli() returns True
StartHaveNmcli ==
    /\ pc = "start"
    /\ ~(disableNm \/ simulate)
    /\ nmcliRun' = TRUE
    /\ useNmcli' = TRUE
    /\ pc' = "wifi"
    /\ UNCHANGED << inputVars, uuid, matches, upFailed, sockBound, running,
                    pendingCommands, vidFnameCount, cmd, resp, slept,
                    exitStatus, diag, out, clock, netVars, captureVars,
                    failure >>

\* haveNmcli() returns False: FileNotFoundError from Popen(['nmcli'])
StartNoNmcli ==
    /\ pc = "start"
    /\ ~(disableNm \/ simulate)
    /\ Abort(ExitFatal, "Cannot find nmcli to control NetworkManager", "nmcli")
    /\ UNCHANGED << inputVars, assocVars, sockBound, running,
                    pendingCommands, vidFnameCount, cmd, resp, slept, out,
                    clock, netVars, captureVars >>

(***************************************************************************)
(* main(), lines 81-83: TELLO_WIFI_UUID = getWifiUUID(), over whatever     *)
(* profiles nmcli lists.                                                   *)
(***************************************************************************)
GetWifi ==
    /\ pc = "wifi"
    /\ useNmcli
    /\ \E nets \in NetLists :
         LET r == getWifiUUID(nets) IN
         /\ nmcliRun' = TRUE
         /\ matches' = TelloCount(nets)
         /\ IF r.kind = "ok"
            THEN /\ uuid' = r.uuid
                 /\ pc' = "connect"
                 /\ UNCHANGED << exitStatus, diag, failure >>
            ELSE /\ Abort(IF r.kind = "exit" THEN ExitFatal ELSE ExitTraceback,
                          r.diag, "association")
                 /\ UNCHANGED uuid
    /\ UNCHANGED << inputVars, useNmcli, upFailed, sockBound, running,
                    pendingCommands, vidFnameCount, cmd, resp, slept, out,
                    clock, netVars, captureVars >>

\* the return codes of `nmcli con up`: success, or activation failed
NmReturnCodes == {0, 4}

(***************************************************************************)
(* main(), lines 85-97: isConnected() runs nmcli again; when the profile   *)
(* has no device, `nmcli con up` is run and its return code decides.       *)
(***************************************************************************)
ConnectAlready ==
    /\ pc = "connect"
    /\ \E nets \in NetLists : isConnected(uuid, nets)
    /\ nmcliRun' = TRUE
    /\ pc' = "socket"
    /\ UNCHANGED << inputVars, useNmcli, uuid, matches, upFailed, sockBound,
                    running, pendingCommands, vidFnameCount, cmd, resp, slept,
                    exitStatus, diag, out, clock, netVars, captureVars,
                    failure >>

ConnectUp ==
    /\ pc = "connect"
    /\ \E nets \in NetLists : ~isConnected(uuid, nets)
    /\ nmcliRun' = TRUE
    /\ \E rc \in NmReturnCodes :
         /\ upFailed' = (rc # 0)
         /\ IF rc = 0
            THEN /\ pc' = "socket"
                 /\ UNCHANGED << exitStatus, diag, failure >>
            ELSE Abort(ExitFatal, "  FAILED", "association")
    /\ UNCHANGED << inputVars, useNmcli, uuid, matches, sockBound, running,
                    pendingCommands, vidFnameCount, cmd, resp, slept, out,
                    clock, netVars, captureVars >>

(***************************************************************************)
(* main(), lines 99-107: the control socket, unless simulating.            *)
(***************************************************************************)
SocketSkipped ==
    /\ pc = "socket"
    /\ simulate
    /\ pc' = "reserve"
    /\ UNCHANGED << inputVars, assocVars, sockBound, running, pendingCommands,
                    vidFnameCount, cmd, resp, slept, exitStatus, diag, out,
                    clock, netVars, captureVars, failure >>

SocketBind ==
    /\ pc = "socket"
    /\ ~simulate
    /\ sockBound' = TRUE
    /\ pc' = "reserve"
    /\ UNCHANGED << inputVars, assocVars, running, pendingCommands,
                    vidFnameCount, cmd, resp, slept, exitStatus, diag, out,
                    clock, netVars, captureVars, failure >>

\* socket() or bind() raises OSError (port 9000 in use)
SocketFail ==
    /\ pc = "socket"
    /\ ~simulate
    /\ Abort(ExitTraceback, "Traceback: OSError", "bind")
    /\ UNCHANGED << inputVars, assocVars, sockBound, running,
                    pendingCommands, vidFnameCount, cmd, resp, slept, out,
                    clock, netVars, captureVars >>

(***************************************************************************)
(* main(), lines 109-118: the queue, and the output name.                  *)
(***************************************************************************)
Reserve ==
    /\ pc = "reserve"
    /\ running' = TRUE
    /\ pendingCommands' = commands
    /\ vidProc' = None
    /\ vidFnameCount' = reserveName(files)
    /\ pc' = "loop"
    /\ UNCHANGED << inputVars, assocVars, sockBound, cmd, resp, slept,
                    exitStatus, diag, out, clock, netVars, procs, starts,
                    files, created, failure >>


(***************************************************************************)
(* The while loop, lines 120-124 and 150-151.                              *)
(***************************************************************************)
\* Dequeue taking the command at the back of the queue
DequeueLast ==
    /\ pc = "loop"
    /\ running
    /\ Len(pendingCommands) > 0
    /\ cmd' = pendingCommands[Len(pendingCommands)]
    /\ pendingCommands' = SubSeq(pendingCommands, 1, Len(pendingCommands) - 1)
    /\ out' = << "CMD", pendingCommands[Len(pendingCommands)] >>
    /\ pc' = "transport"
    /\ UNCHANGED << inputVars, assocVars, sockBound, running, vidFnameCount,
                    resp, slept, exitStatus, diag, clock, netVars,
                    captureVars, failure >>

\* pop the front command and print it
Dequeue ==
    /\ pc = "loop"
    /\ running
    /\ Len(pendingCommands) > 0
    /\ cmd' = pendingCommands[1]
    /\ pendingCommands' = Tail(pendingCommands)
    /\ out' = << "CMD", pendingCommands[1] >>
    /\ pc' = "transport"
    /\ UNCHANGED << inputVars, assocVars, sockBound, running, vidFnameCount,
                    resp, slept, exitStatus, diag, clock, netVars,
                    captureVars, failure >>

\* LoopExit taken with one command still in the queue
LoopExitOffByOne ==
    /\ pc = "loop"
    /\ running
    /\ Len(pendingCommands) <= 1
    /\ running' = FALSE
    /\ pc' = "shutdown"
    /\ UNCHANGED << inputVars, assocVars, sockBound, pendingCommands,
                    vidFnameCount, cmd, resp, slept, exitStatus, diag, out,
                    clock, netVars, captureVars, failure >>

\* lines 150-151: the queue is empty, running becomes False and the loop ends
LoopExit ==
    /\ pc = "loop"
    /\ running
    /\ Len(pendingCommands) = 0
    /\ running' = FALSE
    /\ pc' = "shutdown"
    /\ UNCHANGED << inputVars, assocVars, sockBound, pendingCommands,
                    vidFnameCount, cmd, resp, slept, exitStatus, diag, out,
                    clock, netVars, captureVars, failure >>

(***************************************************************************)
(* Lines 126-136: one command/response turn.                               *)
(***************************************************************************)
\* simulate: the reply is synthesized
SimReply ==
    /\ pc = "transport"
    /\ simulate
    /\ resp' = "sim ok"
    /\ out' = << "RESP", "sim ok" >>
    /\ pc' = "replied"
    /\ UNCHANGED << inputVars, assocVars, sockBound, running, pendingCommands,
                    vidFnameCount, cmd, slept, exitStatus, diag, clock,
                    netVars, captureVars, failure >>

\* SendTo without the wait for the reply
SendToNoWait ==
    /\ pc = "transport"
    /\ ~simulate
    /\ sent' = Append(sent, encode(cmd))
    /\ toDevice' = toDevice \cup {Len(sent) + 1}
    /\ pc' = "replied"
    /\ UNCHANGED << inputVars, assocVars, sockBound, running, pendingCommands,
                    vidFnameCount, cmd, resp, slept, exitStatus, diag, out,
                    clock, toHost, answered, captureVars, failure >>

\* sock.sendto(cmd.encode(), tello_address); then the program is in recvfrom
SendTo ==
    /\ pc = "transport"
    /\ ~simulate
    /\ sent' = Append(sent, encode(cmd))
    /\ toDevice' = toDevice \cup {Len(sent) + 1}
    /\ pc' = "recv"
    /\ UNCHANGED << inputVars, assocVars, sockBound, running, pendingCommands,
                    vidFnameCount, cmd, resp, slept, exitStatus, diag, out,
                    clock, toHost, answered, captureVars, failure >>

\* SendFail with the error caught and the command put back for a retry
SendFailRetry ==
    /\ pc = "transport"
    /\ ~simulate
    /\ failure' = IF failure.kind = "none"
                  THEN [kind |-> "send", sent |-> Len(sent)]
                  ELSE failure
    /\ pendingCommands' = << cmd >> \o pendingCommands
    /\ pc' = "loop"
    /\ UNCHANGED << inputVars, assocVars, sockBound, running, vidFnameCount,
                    cmd, resp, slept, exitStatus, diag, out, clock, netVars,
                    captureVars >>

\* sendto raises OSError (network unreachable): nothing is sent
SendFail ==
    /\ pc = "transport"
    /\ ~simulate
    /\ Abort(ExitTraceback, "Traceback: OSError", "send")
    /\ UNCHANGED << inputVars, assocVars, sockBound, running, pendingCommands,
                    vidFnameCount, cmd, resp, slept, out, clock, netVars,
                    captureVars >>

\* recvfrom returns the next datagram at port 9000 and it decodes
RecvFrom ==
    /\ pc = "recv"
    /\ toHost # << >>
    /\ ~decode(toHost[1].data).raised
    /\ toHost' = Tail(toHost)
    /\ answered' = Append(answered, [re |-> toHost[1].re, at |-> clock])
    /\ resp' = decode(toHost[1].data).text
    /\ out' = << "RESP", decode(toHost[1].data).text >>
    /\ pc' = "replied"
    /\ UNCHANGED << inputVars, assocVars, sockBound, running, pendingCommands,
                    vidFnameCount, cmd, slept, exitStatus, diag, clock,
                    toDevice, sent, captureVars, failure >>

\* recvfrom returns a datagram on which data.decode raises UnicodeDecodeError
RecvUndecodable ==
    /\ pc = "recv"
    /\ toHost # << >>
    /\ decode(toHost[1].data).raised
    /\ toHost' = Tail(toHost)
    /\ Abort(ExitTraceback, "Traceback: UnicodeDecodeError", "recv")
    /\ UNCHANGED << inputVars, assocVars, sockBound, running, pendingCommands,
                    vidFnameCount, cmd, resp, slept, out, clock, toDevice,
                    sent, answered, captureVars >>

\* RecvFail caught, with the loop left for the shutdown of lines 153-157
RecvFailCleanup ==
    /\ pc = "recv"
    /\ failure' = IF failure.kind = "none"
                  THEN [kind |-> "recv", sent |-> Len(sent)]
                  ELSE failure
    /\ exitStatus' = ExitTraceback
    /\ diag' = "Traceback: OSError"
    /\ running' = FALSE
    /\ pc' = "shutdown"
    /\ UNCHANGED << inputVars, assocVars, sockBound, pendingCommands,
                    vidFnameCount, cmd, resp, slept, out, clock, netVars,
                    captureVars >>

\* recvfrom raises OSError: the exception leaves main()
RecvFail ==
    /\ pc = "recv"
    /\ Abort(ExitTraceback, "Traceback: OSError", "recv")
    /\ UNCHANGED << inputVars, assocVars, sockBound, running, pendingCommands,
                    vidFnameCount, cmd, resp, slept, out, clock, netVars,
                    captureVars >>

(***************************************************************************)
(* Lines 138-148: after 'streamon' in a live run, sleep 5 and start ffmpeg.*)
(***************************************************************************)
\* NextCommand leaving the loop, as a `break` in place of the next turn
NextCommandBreak ==
    /\ pc = "replied"
    /\ ~((cmd = "streamon") /\ ~simulate)
    /\ running' = FALSE
    /\ pc' = "shutdown"
    /\ UNCHANGED << inputVars, assocVars, sockBound, pendingCommands,
                    vidFnameCount, cmd, resp, slept, exitStatus, diag, out,
                    clock, netVars, captureVars, failure >>

\* the test of line 138 fails: back to the head of the loop
NextCommand ==
    /\ pc = "replied"
    /\ ~((cmd = "streamon") /\ ~simulate)
    /\ pc' = "loop"
    /\ UNCHANGED << inputVars, assocVars, sockBound, running, pendingCommands,
                    vidFnameCount, cmd, resp, slept, exitStatus, diag, out,
                    clock, netVars, captureVars, failure >>

\* StreamOn without the test of `not simulate`
StreamOnAnyMode ==
    /\ pc = "replied"
    /\ cmd = "streamon"
    /\ slept' = 0
    /\ pc' = "settle"
    /\ UNCHANGED << inputVars, assocVars, sockBound, running, pendingCommands,
                    vidFnameCount, cmd, resp, exitStatus, diag, out, clock,
                    netVars, captureVars, failure >>

\* StreamOn going to the next turn of the loop at once, with no sleep and
\* no capture started
StreamOnNoWait ==
    /\ pc = "replied"
    /\ (cmd = "streamon") /\ ~simulate
    /\ pc' = "loop"
    /\ UNCHANGED << inputVars, assocVars, sockBound, running, pendingCommands,
                    vidFnameCount, cmd, resp, slept, exitStatus, diag, out,
                    clock, netVars, captureVars, failure >>

\* StreamOn with the capture started only when the reply is 'ok'
StreamOnIfOk ==
    /\ pc = "replied"
    /\ (cmd = "streamon") /\ ~simulate
    /\ slept' = 0
    /\ pc' = IF resp = "ok" THEN "settle" ELSE "loop"
    /\ UNCHANGED << inputVars, assocVars, sockBound, running, pendingCommands,
                    vidFnameCount, cmd, resp, exitStatus, diag, out, clock,
                    netVars, captureVars, failure >>

\* the test of line 138 holds: time.sleep(5) begins
StreamOn ==
    /\ pc = "replied"
    /\ (cmd = "streamon") /\ ~simulate
    /\ slept' = 0
    /\ pc' = "settle"
    /\ UNCHANGED << inputVars, assocVars, sockBound, running, pendingCommands,
                    vidFnameCount, cmd, resp, exitStatus, diag, out, clock,
                    netVars, captureVars, failure >>

\* SettleTick with a sleep that returns one time unit early
SettleTickShort ==
    /\ pc = "settle"
    /\ slept < SettleDelay
    /\ slept' = IF slept = 0 THEN 2 ELSE slept + 1
    /\ clock' = clock + 1
    /\ UNCHANGED << inputVars, assocVars, pc, sockBound, running,
                    pendingCommands, vidFnameCount, cmd, resp, exitStatus,
                    diag, out, netVars, captureVars, failure >>

\* one time unit of time.sleep(5)
SettleTick ==
    /\ pc = "settle"
    /\ slept < SettleDelay
    /\ slept' = slept + 1
    /\ clock' = clock + 1
    /\ UNCHANGED << inputVars, assocVars, pc, sockBound, running,
                    pendingCommands, vidFnameCount, cmd, resp, exitStatus,
                    diag, out, netVars, captureVars, failure >>

\* the process subprocess.Popen(['ffmpeg', ..., vidFname]) spawns
NewCapture == [state |-> "running", file |-> vidFnameCount, stdin |-> 0,
               at |-> clock]

\* vidProc = subprocess.Popen(['ffmpeg', ...]) once the sleep is over
StartCapture ==
    /\ pc = "settle"
    /\ slept = SettleDelay
    /\ starts' = starts + 1
    /\ procs' = Append(procs, NewCapture)
    /\ vidProc' = Len(procs) + 1
    /\ pc' = "loop"
    /\ UNCHANGED << inputVars, assocVars, sockBound, running, pendingCommands,
                    vidFnameCount, cmd, resp, slept, exitStatus, diag, out,
                    clock, netVars, files, created, failure >>

\* StartCaptureFail with the error caught and the loop continued
StartCaptureFailIgnored ==
    /\ pc = "settle"
    /\ slept = SettleDelay
    /\ starts' = starts + 1
    /\ failure' = IF failure.kind = "none"
                  THEN [kind |-> "spawn", sent |-> Len(sent)]
                  ELSE failure
    /\ pc' = "loop"
    /\ UNCHANGED << inputVars, assocVars, sockBound, running, pendingCommands,
                    vidFnameCount, cmd, resp, slept, exitStatus, diag, out,
                    clock, netVars, vidProc, procs, files, created >>

\* Popen raises FileNotFoundError: ffmpeg cannot be spawned
StartCaptureFail ==
    /\ pc = "settle"
    /\ slept = SettleDelay
    /\ starts' = starts + 1
    /\ Abort(ExitTraceback, "Traceback: FileNotFoundError", "spawn")
    /\ UNCHANGED << inputVars, assocVars, sockBound, running, pendingCommands,
                    vidFnameCount, cmd, resp, slept, out, clock, netVars,
                    vidProc, procs, files, created >>

(***************************************************************************)
(* Lines 153-157: the end of main().                                       *)
(***************************************************************************)
\* vidProc is None: main() returns
Finish ==
    /\ pc = "shutdown"
    /\ vidProc = None
    /\ pc' = "done"
    /\ exitStatus' = ExitSuccess
    /\ UNCHANGED << inputVars, assocVars, sockBound, running, pendingCommands,
                    vidFnameCount, cmd, resp, slept, diag, out, clock,
                    netVars, captureVars, failure >>

\* Drain without the test of `vidProc is not None`
DrainAlways ==
    /\ pc = "shutdown"
    /\ slept' = 0
    /\ pc' = "grace"
    /\ UNCHANGED << inputVars, assocVars, sockBound, running, pendingCommands,
                    vidFnameCount, cmd, resp, exitStatus, diag, out, clock,
                    netVars, captureVars, failure >>

\* vidProc is not None: time.sleep(2) begins
Drain ==
    /\ pc = "shutdown"
    /\ vidProc # None
    /\ slept' = 0
    /\ pc' = "grace"
    /\ UNCHANGED << inputVars, assocVars, sockBound, running, pendingCommands,
                    vidFnameCount, cmd, resp, exitStatus, diag, out, clock,
                    netVars, captureVars, failure >>

\* one time unit of time.sleep(2)
GraceTick ==
    /\ pc = "grace"
    /\ slept < GraceDelay
    /\ slept' = slept + 1
    /\ clock' = clock + 1
    /\ UNCHANGED << inputVars, assocVars, pc, sockBound, running,
                    pendingCommands, vidFnameCount, cmd, resp, exitStatus,
                    diag, out, netVars, captureVars, failure >>

\* vidProc.communicate('q'): 'q' is written to the stdin of vidProc
CloseStream ==
    /\ pc = "grace"
    /\ slept = GraceDelay
    /\ out' = << "INFO", "Closing video stream" >>
    /\ procs' = [procs EXCEPT ![vidProc].stdin = @ + 1]
    /\ pc' = "wait"
    /\ UNCHANGED << inputVars, assocVars, sockBound, running, pendingCommands,
                    vidFnameCount, cmd, resp, slept, exitStatus, diag, clock,
                    netVars, vidProc, starts, files, created, failure >>

\* communicate returns when vidProc has exited, and main() returns
WaitExit ==
    /\ pc = "wait"
    /\ procs[vidProc].state = "exited"
    /\ pc' = "done"
    /\ exitStatus' = ExitSuccess
    /\ UNCHANGED << inputVars, assocVars, sockBound, running, pendingCommands,
                    vidFnameCount, cmd, resp, slept, diag, out, clock,
                    netVars, captureVars, failure >>

(***************************************************************************)
(* The environment: the device at 192.168.10.1:8889 answers a command with *)
(* one datagram, or the command or its reply is lost; a capture process    *)
(* writes its output file and exits when it has read 'q'.                  *)
(***************************************************************************)
progVars == << useNmcli, uuid, sockBound, running, pendingCommands, vidProc,
               vidFnameCount, cmd, resp, slept, exitStatus, diag, out, pc >>

DeviceReply ==
    /\ \E n \in toDevice, data \in ReplyPayloads :
         /\ toDevice' = toDevice \ {n}
         /\ toHost' = Append(toHost, [re |-> n, data |-> data])
    /\ UNCHANGED << inputVars, progVars, clock, files, procs, sent, answered,
                    starts, created, nmcliRun, matches, upFailed, failure >>

DatagramLost ==
    /\ \E n \in toDevice : toDevice' = toDevice \ {n}
    /\ UNCHANGED << inputVars, progVars, clock, files, toHost, procs, sent,
                    answered, starts, created, nmcliRun, matches, upFailed,
                    failure >>

CaptureWrites ==
    /\ \E h \in 1..Len(procs) :
         /\ procs[h].state = "running"
         /\ procs[h].file \notin files
         /\ files' = files \cup {procs[h].file}
         /\ created' = created \cup {procs[h].file}
    /\ UNCHANGED << inputVars, progVars, clock, toDevice, toHost, procs, sent,
                    answered, starts, nmcliRun, matches, upFailed, failure >>

CaptureExits ==
    /\ \E h \in 1..Len(procs) :
         /\ procs[h].state = "running"
         /\ procs[h].stdin > 0
         /\ procs' = [procs EXCEPT ![h].state = "exited"]
    /\ UNCHANGED << inputVars, progVars, clock, files, toDevice, toHost, sent,
                    answered, starts, created, nmcliRun, matches, upFailed,
                    failure >>

\* the steps of the program that do not fail
Program ==
    \/ StartNoNm \/ StartHaveNmcli \/ GetWifi \/ ConnectAlready \/ ConnectUp
    \/ SocketSkipped \/ SocketBind \/ Reserve \/ Dequeue \/ LoopExit
    \/ SimReply \/ SendTo \/ RecvFrom \/ NextCommand \/ StreamOn
    \/ SettleTick \/ StartCapture \/ Finish \/ Drain \/ GraceTick
    \/ CloseStream \/ WaitExit

\* the steps in which a call of the program fails
Failures ==
    \/ StartNoNmcli \/ SocketFail \/ SendFail \/ RecvUndecodable \/ RecvFail
    \/ StartCaptureFail

Environment ==
    \/ DeviceReply \/ DatagramLost \/ CaptureWrites \/ CaptureExits

Next == Program \/ Failures \/ Environment

Spec == Init /\ [][Next]_vars


(***************************************************************************)
(* The program takes its next step when it has one.  Nothing is assumed of *)
(* the environment: the device need not answer, a blocked recvfrom need    *)
(* not raise, a capture process need not exit.                             *)
(***************************************************************************)
FairSpec == Spec /\ WF_vars(Program)

(***************************************************************************)
(* The runs in which the device answers every command (no datagram is      *)
(* lost), a reply that has arrived is read, and a capture process that has *)
(* read 'q' exits.  Calls of the program may still fail.                   *)
(***************************************************************************)
NextAnswered ==
    \/ Program \/ Failures
    \/ DeviceReply \/ CaptureWrites \/ CaptureExits

AnsweredSpec ==
    /\ Init
    /\ [][NextAnswered]_vars
    /\ WF_vars(Program)
    /\ WF_vars(RecvUndecodable)
    /\ WF_vars(DeviceReply)
    /\ WF_vars(CaptureExits)

(***************************************************************************)
(* The output name alone, over runs of the program one after another: a    *)
(* run with no command reserves its name; the file of that name is then    *)
(* created or not; and the program is run again on the files as they are.  *)
(***************************************************************************)
NameInit ==
    /\ simulate \in BOOLEAN
    /\ disableNm = TRUE
    /\ commands = << >>
    /\ files \in SUBSET (1..MaxProbe)
    /\ InitProgram

\* the files that existed when the name of this run was reserved
ExistingThen == files \ created

\* the file of the reserved name is created
OutputCreated ==
    /\ pc = "loop"
    /\ vidFnameCount \notin files
    /\ files' = files \cup {vidFnameCount}
    /\ created' = created \cup {vidFnameCount}
    /\ UNCHANGED << inputVars, progVars, clock, toDevice, toHost, procs, sent,
                    answered, starts, nmcliRun, matches, upFailed, failure >>

\* the program is run again: main() starts anew on the files as they are
RunAgain ==
    /\ pc = "loop"
    /\ Len(earlier) < MaxRuns
    /\ earlier' = Append(earlier, [name |-> vidFnameCount,
                                   existing |-> ExistingThen])
    /\ pc' = "start"
    /\ sockBound' = FALSE
    /\ running' = FALSE
    /\ pendingCommands' = << >>
    /\ vidFnameCount' = 0
    /\ created' = {}
    /\ UNCHANGED << simulate, disableNm, commands, assocVars, vidProc, cmd,
                    resp, slept, exitStatus, diag, out, clock, files, netVars,
                    procs, starts, failure >>

NameNext ==
    \/ StartNoNm \/ SocketSkipped \/ SocketBind \/ Reserve
    \/ OutputCreated \/ RunAgain

NameSpec == NameInit /\ [][NameNext]_vars

\* the state of the sequencer: IDLE before the queue is set up, RUNNING in
\* the while loop, DRAINING from the end of the loop to the return of main()
SeqState ==
    CASE pc \in {"start", "wifi", "connect", "socket", "reserve"} -> "IDLE"
      [] pc \in {"loop", "transport", "recv", "replied", "settle"} -> "RUNNING"
      [] pc \in {"shutdown", "grace", "wait"} -> "DRAINING"
      [] pc = "done" -> "DONE"
      [] OTHER -> "ABORTED"

(***************************************************************************)
(* Properties.                                                             *)
(***************************************************************************)
\* the commands whose reply the program has received, by position
Replied == 1..Len(answered)

\* the positions of 'streamon' among the commands replied to
StreamOnReplied == {k \in Replied : commands[k] = "streamon"}

\* some capture process is still running
CaptureRunning == \E h \in 1..Len(procs) : procs[h].state = "running"

\* C1: in a live run the datagrams sent are the supplied commands, encoded,
\* in the order supplied; a command is sent only when every earlier one has
\* been answered, so at most one command is sent and not yet answered; and
\* a run that ends normally has sent every command.
C1_InOrderOneInFlight ==
    /\ Len(sent) <= Len(commands)
    /\ \A i \in 1..Len(sent) : sent[i] = encode(commands[i])
    /\ Len(sent) - Len(answered) \in {0, 1}
    /\ Cardinality(toDevice) + Len(toHost) <= 1
    /\ \A i \in Replied : answered[i].re = i
    /\ (~simulate /\ pc = "done") => Len(sent) = Len(commands)

\* C1: the third command is in flight, the first two have been answered
C1_Witness ==
    /\ ~simulate
    /\ Len(sent) = 3
    /\ Len(answered) = 2
    /\ pc = "recv"

\* C2: Popen(['ffmpeg', ...]) is called at most once in a run
C2_AtMostOneStart == starts <= 1

\* C3: the h-th capture process is started only after the reply to the h-th
\* 'streamon' has been received and SettleDelay time units have passed since;
\* Popen is called no more often than a 'streamon' has been answered, so no
\* capture process exists before that; and once the reply to a 'streamon'
\* has been received in a live run, the call of Popen follows.
C3_StartAfterReplyAndSettle ==
    /\ [](\A h \in 1..Len(procs) :
            \E k \in StreamOnReplied :
              /\ Cardinality({j \in StreamOnReplied : j <= k}) = h
              /\ procs[h].at >= answered[k].at + SettleDelay)
    /\ [](starts <= Cardinality(StreamOnReplied))
    /\ [](Len(procs) <= starts)
    /\ \A n \in 1..MaxLen :
         (~simulate /\ Cardinality(StreamOnReplied) >= n) ~> (starts >= n)

\* C3: a second capture process has been started after a second 'streamon'
C3_Witness ==
    /\ Len(procs) = 2
    /\ Cardinality(StreamOnReplied) = 2
    /\ procs[2].at = 2 * SettleDelay

\* C4: the termination request is written only when the queue is empty and
\* the grace delay has passed, and main() returns only when no capture
\* process of the run is still running
C4_DrainBeforeDone ==
    /\ (\E h \in 1..Len(procs) : procs[h].stdin > 0)
         => /\ pendingCommands = << >>
            /\ pc \in {"wait", "done"}
            /\ slept = GraceDelay
    /\ pc = "done" => ~CaptureRunning

\* C5: a simulated run creates no socket, sends and receives nothing, runs
\* no nmcli, starts no capture process, creates no file, answers every
\* command with 'sim ok', never aborts, always has a next step until it is
\* done, and is done with the queue empty and exit status 0
C5_SimulateIsolated ==
    simulate =>
      /\ ~sockBound
      /\ sent = << >> /\ answered = << >>
      /\ toDevice = {} /\ toHost = << >>
      /\ nmcliRun = FALSE /\ ~useNmcli
      /\ starts = 0 /\ procs = << >> /\ created = {}
      /\ resp \in {"", "sim ok"}
      /\ pc = "replied" => (resp = "sim ok" /\ out = << "RESP", "sim ok" >>)
      /\ pc # "aborted"
      /\ clock = 0
      /\ pc # "done" => (exitStatus = NoExit /\ ENABLED Program)
      /\ pc = "done" => (exitStatus = ExitSuccess /\ pendingCommands = << >>)

\* C5: a simulated run of three commands, 'streamon' among them, is done
C5_Witness ==
    /\ simulate
    /\ pc = "done"
    /\ Len(commands) = 3
    /\ \E i \in 1..3 : commands[i] = "streamon"

\* the association has failed: nmcli listed no or several profiles with the
\* marker, or `nmcli con up` returned a failure
AssociationFailed ==
    \/ matches # -1 /\ matches # 1
    \/ upFailed

\* C6: when the association fails the run is aborted with a non-zero exit
\* status, no control socket exists and no datagram has been sent
C6_AssociationFailureAborts ==
    AssociationFailed =>
      /\ pc = "aborted"
      /\ exitStatus \notin {NoExit, ExitSuccess}
      /\ ~sockBound
      /\ sent = << >>
      /\ failure.kind = "association"

\* C6: nmcli listed two profiles with the marker and the run is aborted
C6_Witness ==
    /\ matches = 2
    /\ pc = "aborted"
    /\ diag = "Multiple Tello WiFi networks found"

\* C7: when the program waits in recvfrom and no reply will arrive, the
\* program does not stay in recvfrom forever (it leaves it, by the claim
\* with a TimeoutError)
C7_ReceiveTimesOut ==
    (pc = "recv" /\ toDevice = {} /\ toHost = << >>) ~> (pc # "recv")

\* C8: after a failed send or receive the run is aborted with a non-zero
\* exit status, and nothing is sent beyond what had been sent at the failure
C8_TransportFailureFatal ==
    failure.kind \in {"send", "recv"} =>
      /\ pc = "aborted"
      /\ exitStatus \notin {NoExit, ExitSuccess}
      /\ Len(sent) = failure.sent
      /\ ~ENABLED Program

\* C8: the send of the second command failed with a third still queued
C8_Witness ==
    /\ failure.kind = "send"
    /\ Len(sent) = 1
    /\ Len(pendingCommands) = 1
    /\ pc = "aborted"

\* C9: when ffmpeg cannot be spawned the traceback is written, the run is
\* aborted with a non-zero exit status and no further command is sent
C9_SpawnFailureAborts ==
    failure.kind = "spawn" =>
      /\ pc = "aborted"
      /\ diag = "Traceback: FileNotFoundError"
      /\ exitStatus \notin {NoExit, ExitSuccess}
      /\ Len(sent) = failure.sent
      /\ ~ENABLED Program

\* C9: the spawn failed after 'streamon' with commands still queued
C9_Witness ==
    /\ failure.kind = "spawn"
    /\ pc = "aborted"
    /\ Len(pendingCommands) = 2
    /\ procs = << >>

\* C10: a run that is done and has started no capture process has slept no
\* time unit; the grace delay and the termination request happen only with
\* a capture process; with an empty queue the sequencer sends nothing,
\* starts nothing, sleeps no time unit and only passes the loop test and
\* the test of vidProc
C10_NoCaptureNoDelay ==
    /\ (pc = "done" /\ procs = << >>) => (clock = 0 /\ starts = 0)
    /\ pc \in {"grace", "wait"} => (vidProc # None /\ procs # << >>)
    /\ (commands = << >> /\ running) => pc = "loop"
    /\ (commands = << >> /\ pc \notin {"aborted"})
         => /\ pc \in {"start", "wifi", "connect", "socket", "reserve",
                       "loop", "shutdown", "done"}
            /\ sent = << >> /\ procs = << >> /\ starts = 0 /\ clock = 0

\* C10: a live run of three commands without 'streamon' is done
C10_Witness ==
    /\ ~simulate
    /\ pc = "done"
    /\ Len(sent) = 3
    /\ procs = << >>
    /\ clock = 0


\* the place of a sequencer state in IDLE, RUNNING, DRAINING, DONE
StateRank(st) ==
    CASE st = "IDLE" -> 0
      [] st = "RUNNING" -> 1
      [] st = "DRAINING" -> 2
      [] st = "DONE" -> 3
      [] OTHER -> 4

C12_LowestFreeName ==
    pc = "loop" =>
      /\ vidFnameCount >= 1
      /\ vidFnameCount \notin ExistingThen
      /\ \A n \in 1..(vidFnameCount - 1) : n \in ExistingThen

\* C12: with output1 and output3 existing, output2 is reserved
C12_Witness ==
    /\ pc = "loop"
    /\ ExistingThen = {1, 3}
    /\ vidFnameCount = 2

\* C13: a run on the same files as the run before reserves the same name;
\* a run on those files plus the name reserved before reserves another
\* name, the lowest free one above the name reserved before
C13_SameThenNextFree ==
    (pc = "loop" /\ earlier # << >>) =>
      LET prev == earlier[Len(earlier)] IN
      /\ ExistingThen = prev.existing => vidFnameCount = prev.name
      /\ ExistingThen = prev.existing \cup {prev.name} =>
           /\ vidFnameCount > prev.name
           /\ vidFnameCount \notin ExistingThen
           /\ \A n \in (prev.name + 1)..(vidFnameCount - 1) :
                n \in ExistingThen

\* C13: output1 was reserved and created with output2 existing, and the
\* next run reserves output3
C13_Witness ==
    /\ pc = "loop"
    /\ earlier # << >>
    /\ earlier[Len(earlier)] = [name |-> 1, existing |-> {2}]
    /\ ExistingThen = {1, 2}
    /\ vidFnameCount = 3


\* q is what is left of c after some of its front has been taken
IsSuffix(q, c) ==
    /\ Len(q) <= Len(c)
    /\ \A i \in 1..Len(q) : q[i] = c[Len(c) - Len(q) + i]

\* the commands taken from the queue so far
Dispatched == Len(commands) - Len(pendingCommands)

\* C14: once the queue is set up it is always a suffix of the supplied
\* sequence, and nothing is sent beyond the commands taken from it; after
\* the set-up the queue changes only by losing its front command, which
\* becomes the command of the turn, so no command returns to the queue and
\* each position is dispatched at most once
C14_QueueIsSuffix ==
    /\ [](SeqState # "IDLE" =>
            /\ IsSuffix(pendingCommands, commands)
            /\ Len(sent) <= Dispatched
            /\ (pc \in {"transport", "recv", "replied", "settle"}
                  => (Dispatched >= 1 /\ cmd = commands[Dispatched])))
    /\ [][(pc # "reserve" /\ pendingCommands' # pendingCommands) =>
            /\ pendingCommands # << >>
            /\ pendingCommands' = Tail(pendingCommands)
            /\ cmd' = Head(pendingCommands)]_vars

\* C14: two of three commands have been taken, the third is still queued
C14_Witness ==
    /\ pc = "transport"
    /\ Len(commands) = 3
    /\ commands[2] # commands[3]
    /\ pendingCommands = << commands[3] >>
    /\ cmd = commands[2]


\* C15: the text of the datagram received is what becomes resp and what is
\* printed; and where the program goes after a reply is decided by the
\* command and the mode alone, whatever the text of the reply: to the sleep
\* before the capture after a live 'streamon', to the next turn of the loop
\* otherwise, and one of the two is always possible
C15_ReplyNotInterpreted ==
    /\ [][(pc = "recv" /\ pc' = "replied") =>
            /\ resp' = toHost[1].data[2]
            /\ out' = << "RESP", toHost[1].data[2] >>]_vars
    /\ [][(pc = "replied" /\ pc' # pc) =>
            pc' = IF cmd = "streamon" /\ ~simulate THEN "settle" ELSE "loop"]_vars
    /\ [](pc = "replied" => ENABLED (NextCommand \/ StreamOn))
    /\ [](pc = "replied" => (failure.kind = "none" /\ out = << "RESP", resp >>))

\* C15: 'streamon' was answered 'error' and the capture process was started
C15_Witness ==
    /\ ~simulate
    /\ pc = "loop"
    /\ cmd = "streamon"
    /\ resp = "error"
    /\ Len(procs) = 1
    /\ vidProc = 1


\* C16: once sendto or recvfrom has failed in a run that started a capture
\* process, the run is aborted and takes no further step; no time was slept
\* beyond the sleeps before the captures (no sleep of GraceDelay), nothing
\* was written to the stdin of any capture process, and every capture
\* process is still running and remains so
C16_AbortLeavesCaptureRunning ==
    (failure.kind \in {"send", "recv"} /\ procs # << >>) =>
      /\ pc = "aborted"
      /\ ~ENABLED Program
      /\ clock = SettleDelay * starts
      /\ \A h \in 1..Len(procs) :
           /\ procs[h].stdin = 0
           /\ procs[h].state = "running"
      /\ ~ENABLED CaptureExits

\* C16: recvfrom failed for the command after 'streamon', capture running
C16_Witness ==
    /\ failure.kind = "recv"
    /\ pc = "aborted"
    /\ Len(procs) = 1
    /\ vidProc = 1
    /\ procs[1].state = "running"
    /\ Len(sent) >= 2


\* C17: 'q' is written to the stdin of a capture process at most once, to
\* the process vidProc names only, and only when the queue is empty, every
\* command has been sent and answered and no datagram is in flight; while
\* commands are dispatched every capture process started is running with
\* nothing written to its stdin, and a capture process that has exited was
\* sent 'q' before
C17_StopOnlyAfterLastReply ==
    /\ \A h \in 1..Len(procs) :
         /\ procs[h].stdin <= 1
         /\ procs[h].stdin > 0 =>
              /\ h = vidProc
              /\ pc \in {"wait", "done"}
              /\ pendingCommands = << >>
              /\ Len(sent) = Len(commands)
              /\ Len(answered) = Len(commands)
              /\ toDevice = {}
              /\ toHost = << >>
         /\ procs[h].state = "exited" => procs[h].stdin > 0
    /\ SeqState = "RUNNING" =>
         \A h \in 1..Len(procs) :
           procs[h].stdin = 0 /\ procs[h].state = "running"

\* C17: the capture started after the first of three commands was sent 'q'
\* after the third reply
C17_Witness ==
    /\ pc = "wait"
    /\ Len(commands) = 3
    /\ commands[1] = "streamon"
    /\ Len(answered) = 3
    /\ Len(procs) = 1
    /\ procs[1].stdin = 1
    /\ procs[1].at <= answered[2].at


\* the number of 'streamon' among the first k datagrams sent
StreamOnsSent(k) ==
    Cardinality({j \in 1..k : j <= Len(sent) /\ sent[j] = encode("streamon")})

\* C18: when a datagram has been sent after a 'streamon' datagram, the
\* capture process of that 'streamon' has been started, it was started no
\* sooner than SettleDelay after the reply to 'streamon', and that time has
\* passed; during time.sleep(5) and time.sleep(2) no datagram is sent and
\* none is outstanding
C18_NothingSentWhileSleeping ==
    /\ [](\A k \in 1..Len(sent) :
            (sent[k] = encode("streamon") /\ Len(sent) > k) =>
              /\ Len(procs) >= StreamOnsSent(k)
              /\ procs[StreamOnsSent(k)].at >= answered[k].at + SettleDelay
              /\ clock >= answered[k].at + SettleDelay)
    /\ [](pc \in {"settle", "grace"} =>
            (toDevice = {} /\ toHost = << >> /\ Len(sent) = Len(answered)))
    /\ [][(pc \in {"settle", "grace"}) => (sent' = sent)]_vars
    /\ [][sent' # sent => (pc = "transport" /\ sent' = Append(sent, encode(cmd)))]_vars

\* C18: two commands were sent after 'streamon' and the sleep before the
\* end of the capture has elapsed
C18_Witness ==
    /\ pc = "grace"
    /\ slept = GraceDelay
    /\ Len(sent) = 3
    /\ sent[1] = encode("streamon")
    /\ sent[2] # encode("streamon")
    /\ Len(procs) = 1
    /\ clock = SettleDelay + GraceDelay


(***************************************************************************)
(* Lines 101-107 and 132: the socket is a UDP socket bound to port 9000,   *)
(* and recvfrom returns the next datagram that arrives there.  UDP may     *)
(* deliver a datagram more than once, and the copy may arrive later.       *)
(***************************************************************************)
\* a datagram waiting at port 9000 arrives a second time, behind the others
DatagramDuplicated ==
    /\ toHost # << >>
    /\ Len(answered) + Len(toHost) + Cardinality(toDevice) < Len(sent) + MaxDup
    /\ \E i \in 1..Len(toHost) : toHost' = Append(toHost, toHost[i])
    /\ UNCHANGED << inputVars, progVars, clock, files, toDevice, procs, sent,
                    answered, starts, created, nmcliRun, matches, upFailed,
                    failure >>

\* a live run without NetworkManager (--disable-nm)
DupInit ==
    /\ simulate = FALSE
    /\ disableNm = TRUE
    /\ commands \in CommandQueues
    /\ files \in SUBSET (1..MaxFiles)
    /\ InitProgram

\* the steps of that run when no call fails and every command is answered,
\* on a network that may deliver a datagram twice
NextDup ==
    \/ StartNoNm \/ SocketBind \/ Reserve
    \/ Dequeue \/ LoopExit
    \/ SendTo \/ RecvFrom \/ RecvUndecodable
    \/ NextCommand \/ StreamOn \/ SettleTick \/ StartCapture
    \/ Finish \/ Drain \/ GraceTick \/ CloseStream \/ WaitExit
    \/ DeviceReply \/ DatagramDuplicated
    \/ CaptureWrites \/ CaptureExits

DupSpec == DupInit /\ [][NextDup]_vars

\* C19: the i-th reply the program surfaces is a datagram the device sent in
\* answer to the i-th command
C19_ReplyMatchesCommand ==
    \A i \in Replied : answered[i].re = i

=============================================================================
